---- MODULE Spec2Model ----
(***************************************************************************)
(* A model of the keyring access and export layer: GpgContext              *)
(* (src/src/gpg/context.rs), the key view model GpgKey and KeyDetailLevel  *)
(* (src/src/gpg/key.rs) and the application Mode (src/src/app/mode.rs).    *)
(*                                                                         *)
(* Text is modelled as a sequence of one-character strings, so that        *)
(* prefixes, case mapping, escaping and template substitution are          *)
(* computed and not assumed.  The box-drawing characters of the key view   *)
(* are written "VBAR" (U+2502), "TEE" (U+251C), "ELL" (U+2514) and         *)
(* "HBAR" (U+2500).                                                        *)
(*                                                                         *)
(* The OpenPGP engine (gpgme) and the template engine (tinytemplate) are   *)
(* libraries the program calls; the definitions named Engine... and the    *)
(* template definitions model what those calls do.                         *)
(***************************************************************************)
EXTENDS Integers, Sequences, FiniteSets, TLC

VARIABLES
    armor,        \* GpgContext.config.armor
    engineArmor,  \* the armor flag of GpgContext.inner (the engine context)
    outputFile,   \* GpgContext.config.output_file, the file name template
    pub,          \* the public keyring, in engine order
    sec,          \* the secret keyring, in engine order
    fs,           \* the files under the output directory: path -> data
    dirs,         \* the directories that exist
    last,         \* the last operation on the context and what it returned
    rt,           \* progress of an export / delete / import sequence
    inp,          \* the input of a pure function being applied
    out           \* what the pure function returned

vars == <<armor, engineArmor, outputFile, pub, sec, fs, dirs, last, rt, inp, out>>

ctxVars == <<armor, engineArmor, outputFile, pub, sec, fs, dirs, last, rt>>

(***************************************************************************)
(* Results: Ok(v) and Err(e), as Rust's Result.                            *)
(***************************************************************************)
Ok(v) == [ok |-> TRUE, val |-> v]

Err(e) == [ok |-> FALSE, err |-> e]

None == [some |-> FALSE]

Some(v) == [some |-> TRUE, val |-> v]

Idle == [op |-> "none"]

(***************************************************************************)
(* KeyType and its Display.                                                *)
(***************************************************************************)
KeyTypes == {"Public", "Secret"}

KeyTypeToString(t) == IF t = "Public" THEN <<"p", "u", "b">> ELSE <<"s", "e", "c">>

(***************************************************************************)
(* The template engine: "{name}" is a placeholder, anything else is text.  *)
(***************************************************************************)
RECURSIVE CloseBrace(_, _)
CloseBrace(s, i) ==
    IF i > Len(s) THEN 0
    ELSE IF s[i] = "}" THEN i
    ELSE CloseBrace(s, i + 1)

RECURSIVE ParseFrom(_, _)
ParseFrom(s, i) ==
    IF i > Len(s) THEN <<>>
    ELSE IF s[i] = "{"
         THEN LET j == CloseBrace(s, i + 1)
              IN  IF j = 0 THEN <<[kind |-> "bad"]>>
                  ELSE <<[kind |-> "var", name |-> SubSeq(s, i + 1, j - 1)]>>
                       \o ParseFrom(s, j + 1)
         ELSE <<[kind |-> "lit", ch |-> s[i]]>> \o ParseFrom(s, i + 1)

AddTemplate(s) ==
    LET toks == ParseFrom(s, 1)
    IN  IF \E k \in 1..Len(toks) : toks[k].kind = "bad"
        THEN Err("template parse")
        ELSE Ok(toks)

\* The default value formatter of the template engine escapes the HTML
\* special characters of a string value.
EscapeChar(c) ==
    CASE c = "&" -> <<"&", "a", "m", "p", ";">>
      [] c = "<" -> <<"&", "l", "t", ";">>
      [] c = ">" -> <<"&", "g", "t", ";">>
      [] c = "\"" -> <<"&", "q", "u", "o", "t", ";">>
      [] c = "'" -> <<"&", "#", "3", "9", ";">>
      [] OTHER -> <<c>>

RECURSIVE Escape(_)
Escape(s) == IF s = <<>> THEN <<>> ELSE EscapeChar(Head(s)) \o Escape(Tail(s))

FieldNames == {<<"t", "y", "p", "e">>, <<"q", "u", "e", "r", "y">>, <<"e", "x", "t">>}

Field(context, name) ==
    CASE name = <<"t", "y", "p", "e">> -> context.type_
      [] name = <<"q", "u", "e", "r", "y">> -> context.query
      [] OTHER -> context.ext

RECURSIVE RenderTokens(_, _)
RenderTokens(toks, context) ==
    IF toks = <<>> THEN <<>>
    ELSE (IF Head(toks).kind = "lit" THEN <<Head(toks).ch>>
          ELSE Escape(Field(context, Head(toks).name)))
         \o RenderTokens(Tail(toks), context)

Render(toks, context) ==
    IF \E k \in 1..Len(toks) : toks[k].kind = "var" /\ toks[k].name \notin FieldNames
    THEN Err("template render")
    ELSE Ok(RenderTokens(toks, context))

(***************************************************************************)
(* Paths.                                                                  *)
(***************************************************************************)
OutputDir == <<"/", "o">>

\* PathBuf::join: an absolute right-hand side replaces the left-hand side.
Join(dir, rel) ==
    IF rel # <<>> /\ Head(rel) = "/" THEN rel ELSE dir \o <<"/">> \o rel

RECURSIVE LastSlash(_, _)
LastSlash(p, i) == IF i = 0 THEN 0 ELSE IF p[i] = "/" THEN i ELSE LastSlash(p, i - 1)

Parent(p) == SubSeq(p, 1, LastSlash(p, Len(p)) - 1)

(***************************************************************************)
(* GpgContext::get_output_file.  Returns the result and the directories    *)
(* that exist afterwards.                                                  *)
(***************************************************************************)
\* A slip in the extension: the two branches exchanged.
ExportContextSwapped(key_type, patterns, cfgArmor) ==
    [type_ |-> KeyTypeToString(key_type),
     query |-> IF Len(patterns) = 1 THEN patterns[1] ELSE <<"o", "u", "t">>,
     ext   |-> IF cfgArmor THEN <<"p", "g", "p">> ELSE <<"a", "s", "c">>]

ExportContext(key_type, patterns, cfgArmor) ==
    [type_ |-> KeyTypeToString(key_type),
     query |-> IF Len(patterns) = 1 THEN patterns[1] ELSE <<"o", "u", "t">>,
     ext   |-> IF cfgArmor THEN <<"a", "s", "c">> ELSE <<"p", "g", "p">>]

get_output_file(tmpl, cfgArmor, files, ds, key_type, patterns) ==
    LET t == AddTemplate(tmpl)
    IN  IF ~t.ok THEN [res |-> t, dirs |-> ds]
        ELSE LET r == Render(t.val, ExportContext(key_type, patterns, cfgArmor))
             IN  IF ~r.ok THEN [res |-> r, dirs |-> ds]
                 ELSE LET path == Join(OutputDir, r.val)
                      IN  [res  |-> Ok(path),
                           dirs |-> IF path \in DOMAIN files THEN ds
                                    ELSE ds \cup {Parent(path)}]

(***************************************************************************)
(* Keys and keyrings.  A keyring is the sequence of its records in engine  *)
(* order; a record is a key (1..MaxKeys) or Broken, a record the engine    *)
(* cannot materialize and reports as an enumeration error.                 *)
(***************************************************************************)
MaxKeys == 2

MaxBatch == 3

Keys == 1..MaxKeys

Broken == 0

Digit(k) == <<"1", "2", "3", "4", "5">>[k]

\* Key::id(), the hexadecimal key id of the record.
KeyId(k) == <<Digit(k)>>

KeyDetail == {"Minimum", "Standard", "Full"}

\* GpgKey::new(key, detail)
GpgKeyNew(k, detail) == [inner |-> k, detail |-> detail]

\* GpgKey::get_id(): the key id with the "0x" prefix.
GetId(key) == <<"0", "x">> \o KeyId(key.inner)

RECURSIVE SeqToSet(_)
SeqToSet(s) == IF s = <<>> THEN {} ELSE {Head(s)} \cup SeqToSet(Tail(s))

RECURSIVE Without(_, _)
Without(s, x) ==
    IF s = <<>> THEN <<>>
    ELSE IF Head(s) = x THEN Without(Tail(s), x)
    ELSE <<Head(s)>> \o Without(Tail(s), x)

RECURSIVE Ascending(_)
Ascending(S) ==
    IF S = {} THEN <<>>
    ELSE LET m == CHOOSE x \in S : \A y \in S : x <= y
         IN  <<m>> \o Ascending(S \ {m})

(***************************************************************************)
(* The engine.                                                             *)
(***************************************************************************)
\* A pattern selects a key by its key id, with or without the 0x prefix, or
\* by its address in the exact-match form <id>.
EngineMatches(pattern, k) ==
    \/ pattern = KeyId(k)
    \/ pattern = <<"0", "x">> \o KeyId(k)
    \/ pattern = <<"<">> \o KeyId(k) \o <<">">>

\* Context::find_keys / find_secret_keys: the Keys iterator, one
\* Result<Key> per record; no pattern selects every key.
RECURSIVE EngineFindKeys(_, _)
EngineFindKeys(ring, patterns) ==
    IF ring = <<>> THEN <<>>
    ELSE LET r == Head(ring)
             rest == EngineFindKeys(Tail(ring), patterns)
         IN  IF r = Broken THEN <<Err("enumeration")>> \o rest
             ELSE IF patterns = <<>>
                     \/ \E i \in 1..Len(patterns) : EngineMatches(patterns[i], r)
                  THEN <<Ok(r)>> \o rest
                  ELSE rest

\* Context::get_key / get_secret_key
EngineGetKey(ring, key_id) ==
    IF \E k \in SeqToSet(ring) \ {Broken} : EngineMatches(key_id, k)
    THEN Ok(CHOOSE k \in SeqToSet(ring) \ {Broken} : EngineMatches(key_id, k))
    ELSE Err("not found")

NoBytes == [keys |-> {}, secret |-> FALSE, armored |-> FALSE, valid |-> TRUE]

IsEmpty(bytes) == bytes.keys = {}

\* Context::export_keys: the exported bytes, armored as the engine's armor
\* flag says.  With no key to export the engine either reports an error of
\* its own or writes nothing (rejects says which).
EngineExportKeys(keys, secretMode, eArmor, rejects) ==
    IF keys = <<>>
    THEN IF rejects THEN Err("engine") ELSE Ok(NoBytes)
    ELSE Ok([keys |-> SeqToSet(keys), secret |-> secretMode,
             armored |-> eArmor, valid |-> TRUE])

\* Context::import: keys of the data that the keyring lacks are appended;
\* imported() counts the new public keys.  Data that is no key material is
\* either rejected or imports nothing (rejects says which).
EngineImport(data, P, S, rejects) ==
    IF ~data.valid
    THEN IF rejects THEN [res |-> Err("engine"), pub |-> P, sec |-> S]
         ELSE [res |-> Ok(0), pub |-> P, sec |-> S]
    ELSE LET newP == data.keys \ SeqToSet(P)
             newS == IF data.secret THEN data.keys \ SeqToSet(S) ELSE {}
         IN  [res |-> Ok(Cardinality(newP)),
              pub |-> P \o Ascending(newP),
              sec |-> S \o Ascending(newS)]

\* Context::delete_key: refused while the secret key exists.
EngineDeleteKey(k, P, S) ==
    IF k \in SeqToSet(S) THEN [res |-> Err("engine"), pub |-> P, sec |-> S]
    ELSE [res |-> Ok("unit"), pub |-> Without(P, k), sec |-> S]

\* Context::delete_secret_key: removes the secret key and, depending on the
\* engine, the public key with it (both says which).
EngineDeleteSecretKey(k, P, S, both) ==
    [res |-> Ok("unit"),
     pub |-> IF both THEN Without(P, k) ELSE P,
     sec |-> Without(S, k)]

(***************************************************************************)
(* GpgContext (src/src/gpg/context.rs).                                    *)
(***************************************************************************)
Ring(key_type, P, S) == IF key_type = "Public" THEN P ELSE S

\* Option<Vec<String>>::unwrap_or_default()
UnwrapOrDefault(patterns) == IF patterns.some THEN patterns.val ELSE <<>>

get_keys_iter(key_type, patterns, P, S) ==
    EngineFindKeys(Ring(key_type, P, S), UnwrapOrDefault(patterns))

\* .filter_map(|key| key.ok())
RECURSIVE FilterMapOk(_)
FilterMapOk(results) ==
    IF results = <<>> THEN <<>>
    ELSE IF Head(results).ok THEN <<Head(results).val>> \o FilterMapOk(Tail(results))
    ELSE FilterMapOk(Tail(results))

\* A slip in the listing: collecting into a Result, which fails on the first
\* enumeration error.
get_keys_strict(key_type, patterns, detail_level, P, S) ==
    LET results == get_keys_iter(key_type, patterns, P, S)
        found == FilterMapOk(results)
    IN  IF \E i \in 1..Len(results) : ~results[i].ok THEN Err("enumeration")
        ELSE Ok([i \in 1..Len(found) |-> GpgKeyNew(found[i], detail_level)])

get_keys(key_type, patterns, detail_level, P, S) ==
    LET found == FilterMapOk(get_keys_iter(key_type, patterns, P, S))
    IN  Ok([i \in 1..Len(found) |-> GpgKeyNew(found[i], detail_level)])

get_key(key_type, key_id, P, S) == EngineGetKey(Ring(key_type, P, S), key_id)

\* A slip in the export: the buffer returned without the emptiness test.
get_exported_keys_unchecked(key_type, patterns, P, S, eArmor, rejects) ==
    EngineExportKeys(FilterMapOk(get_keys_iter(key_type, patterns, P, S)),
                     key_type = "Secret", eArmor, rejects)

get_exported_keys(key_type, patterns, P, S, eArmor, rejects) ==
    LET keys == FilterMapOk(get_keys_iter(key_type, patterns, P, S))
        output == EngineExportKeys(keys, key_type = "Secret", eArmor, rejects)
    IN  IF ~output.ok THEN output
        ELSE IF IsEmpty(output.val) THEN Err("nothing exported")
        ELSE Ok(output.val)

\* An element of import_keys' list is a string with two readings: as a path
\* (elem.path, which names a file or nothing) and as key material
\* (elem.data, which is Garbage when the string is no key material).
Garbage == [keys |-> {}, secret |-> FALSE, armored |-> FALSE, valid |-> FALSE]

\* File::open(key)
FileOpen(elem, files) ==
    IF elem.path \in DOMAIN files THEN Ok(files[elem.path]) ELSE Err("file open")

AsData(elem) == elem.data

\* A slip in the import loop: a failed element is skipped and the loop goes on.
RECURSIVE ImportFromSkipping(_, _, _, _, _, _, _, _)
ImportFromSkipping(keys, i, n, read_from_file, P, S, files, rejects) ==
    IF i > Len(keys)
    THEN [res |-> Ok(n), pub |-> P, sec |-> S, attempted |-> Len(keys)]
    ELSE LET input == FileOpen(keys[i], files)
         IN  IF read_from_file /\ ~input.ok
             THEN ImportFromSkipping(keys, i + 1, n, read_from_file, P, S, files, rejects)
             ELSE LET data == IF read_from_file THEN input.val ELSE AsData(keys[i])
                      r == EngineImport(data, P, S, rejects)
                  IN  IF ~r.res.ok
                      THEN ImportFromSkipping(keys, i + 1, n, read_from_file,
                                              P, S, files, rejects)
                      ELSE ImportFromSkipping(keys, i + 1, n + r.res.val, read_from_file,
                                              r.pub, r.sec, files, rejects)

\* The loop of import_keys from element i on, with n keys imported so far.
\* attempted is the number of elements the loop reached.
RECURSIVE ImportFrom(_, _, _, _, _, _, _, _)
ImportFrom(keys, i, n, read_from_file, P, S, files, rejects) ==
    IF i > Len(keys)
    THEN [res |-> Ok(n), pub |-> P, sec |-> S, attempted |-> Len(keys)]
    ELSE LET input == FileOpen(keys[i], files)
         IN  IF read_from_file /\ ~input.ok
             THEN [res |-> input, pub |-> P, sec |-> S, attempted |-> i]
             ELSE LET data == IF read_from_file THEN input.val ELSE AsData(keys[i])
                      r == EngineImport(data, P, S, rejects)
                  IN  IF ~r.res.ok
                      THEN [res |-> r.res, pub |-> P, sec |-> S, attempted |-> i]
                      ELSE ImportFrom(keys, i + 1, n + r.res.val, read_from_file,
                                      r.pub, r.sec, files, rejects)

\* A slip in the import: every string handed to the engine as key material,
\* whatever read_from_file says.
import_keys_as_text(keys, read_from_file, P, S, files, rejects) ==
    ImportFrom(keys, 1, 0, FALSE, P, S, files, rejects)

import_keys(keys, read_from_file, P, S, files, rejects) ==
    ImportFrom(keys, 1, 0, read_from_file, P, S, files, rejects)

\* export_keys: the bytes first, then the path, then the write.
export_keys(key_type, patterns, tmpl, cfgArmor, eArmor, P, S, files, ds, rejects) ==
    LET output == get_exported_keys(key_type, patterns, P, S, eArmor, rejects)
    IN  IF ~output.ok THEN [res |-> output, fs |-> files, dirs |-> ds]
        ELSE LET path == get_output_file(tmpl, cfgArmor, files, ds, key_type,
                                         UnwrapOrDefault(patterns))
             IN  IF ~path.res.ok THEN [res |-> path.res, fs |-> files, dirs |-> path.dirs]
                 ELSE [res  |-> path.res,
                       fs   |-> [f \in DOMAIN files \cup {path.res.val} |->
                                   IF f = path.res.val THEN output.val ELSE files[f]],
                       dirs |-> path.dirs]

\* A slip in the delete: the two arms of the match exchanged.
delete_key_swapped(key_type, key_id, P, S, both) ==
    LET key == get_key(key_type, key_id, P, S)
    IN  IF ~key.ok THEN [res |-> key, pub |-> P, sec |-> S]
        ELSE IF key_type = "Secret" THEN EngineDeleteKey(key.val, P, S)
        ELSE EngineDeleteSecretKey(key.val, P, S, both)

delete_key(key_type, key_id, P, S, both) ==
    LET key == get_key(key_type, key_id, P, S)
    IN  IF ~key.ok THEN [res |-> key, pub |-> P, sec |-> S]
        ELSE IF key_type = "Public" THEN EngineDeleteKey(key.val, P, S)
        ELSE EngineDeleteSecretKey(key.val, P, S, both)

(***************************************************************************)
(* The states a context starts in, and the inputs of its operations.       *)
(***************************************************************************)
Count(s, x) == Cardinality({i \in 1..Len(s) : s[i] = x})

\* The keyrings: at most one record per key, at most one broken record.
Rings ==
    {s \in UNION {[1..n -> Keys \cup {Broken}] : n \in 0..(MaxKeys + 1)} :
        /\ \A k \in Keys : Count(s, k) <= 1
        /\ Count(s, Broken) <= 1}

RECURSIVE Restrict(_, _)
Restrict(s, S) ==
    IF s = <<>> THEN <<>>
    ELSE IF Head(s) \in S THEN <<Head(s)>> \o Restrict(Tail(s), S)
    ELSE Restrict(Tail(s), S)

\* Every secret key has its public key in the public keyring.
SecretRings(P) == {Restrict(P, S) : S \in SUBSET (SeqToSet(P) \ {Broken})}

\* "{query}-{type}.{ext}"
QueryTypeExt ==
    <<"{", "q", "u", "e", "r", "y", "}", "-", "{", "t", "y", "p", "e", "}",
      ".", "{", "e", "x", "t", "}">>

NoSuchKey == <<"n", "o", "k", "e", "y">>

ListPatterns ==
    {None, Some(<<>>), Some(<<NoSuchKey>>), Some(<<KeyId(1)>>),
     Some(<<NoSuchKey, KeyId(1)>>)}

MissingPath == <<"/", "n">>

KeyText(k) == [keys |-> {k}, secret |-> FALSE, armored |-> TRUE, valid |-> TRUE]

\* The strings given to import_keys: the path of a file, a string that is
\* neither a file's path nor key material, and the text of a key.
ImportElems ==
    {[path |-> p, data |-> Garbage] : p \in DOMAIN fs \cup {MissingPath}}
    \cup {[path |-> MissingPath, data |-> KeyText(k)] : k \in {1, MaxKeys}}

ImportLists(maxLen) == UNION {[1..n -> ImportElems] : n \in 0..maxLen}

KeyIdInputs == {<<"0", "x">> \o KeyId(k) : k \in Keys} \cup {NoSuchKey}

NoRoundTrip == [stage |-> 0]

InitContext ==
    /\ engineArmor = armor
    /\ outputFile = QueryTypeExt
    /\ last = Idle
    /\ rt = NoRoundTrip
    /\ inp = Idle
    /\ out = Idle

\* A context on a keyring of any shape, over an empty output directory.
Init ==
    /\ armor = FALSE
    /\ pub \in Rings
    /\ sec \in SecretRings(pub)
    /\ fs = <<>>
    /\ dirs = {}
    /\ InitContext

(***************************************************************************)
(* The operations on a context.  The context is used from one thread: an   *)
(* operation starts when the caller has taken the result of the one before *)
(* (Return).                                                               *)
(***************************************************************************)
Return ==
    /\ last # Idle
    /\ last' = Idle
    /\ UNCHANGED <<armor, engineArmor, outputFile, pub, sec, fs, dirs, rt, inp, out>>

\* The engine's choices, where the operation reaches one.
Oracle(cond) == IF cond THEN BOOLEAN ELSE {FALSE}

\* config.armor = !config.armor, the caller's write to the public field.
ToggleArmor ==
    /\ last = Idle
    /\ armor' = ~armor
    /\ UNCHANGED <<engineArmor, outputFile, pub, sec, fs, dirs, last, rt, inp, out>>

\* GpgContext::apply_config
apply_config(cfgArmor) == cfgArmor

ApplyConfig ==
    /\ last = Idle
    /\ engineArmor' = apply_config(armor)
    /\ last' = [op |-> "apply_config"]
    /\ UNCHANGED <<armor, outputFile, pub, sec, fs, dirs, rt, inp, out>>

GetKeys ==
    /\ last = Idle
    /\ \E key_type \in KeyTypes, patterns \in ListPatterns, detail_level \in KeyDetail :
        /\ last' = [op |-> "get_keys", key_type |-> key_type, patterns |-> patterns,
                    detail_level |-> detail_level,
                    res |-> get_keys(key_type, patterns, detail_level, pub, sec)]
        /\ UNCHANGED <<armor, engineArmor, outputFile, pub, sec, fs, dirs, rt, inp, out>>

GetExportedKeys ==
    /\ last = Idle
    /\ \E key_type \in KeyTypes, patterns \in ListPatterns :
       \E rejects \in Oracle(FilterMapOk(get_keys_iter(key_type, patterns, pub, sec)) = <<>>) :
        /\ last' = [op |-> "get_exported_keys", key_type |-> key_type,
                    patterns |-> patterns, rejects |-> rejects,
                    res |-> get_exported_keys(key_type, patterns, pub, sec,
                                              engineArmor, rejects)]
        /\ UNCHANGED <<armor, engineArmor, outputFile, pub, sec, fs, dirs, rt, inp, out>>

ImportKeysOf(lists) ==
    /\ last = Idle
    /\ \E keys \in lists, read_from_file \in BOOLEAN :
       \E rejects \in Oracle(\E i \in 1..Len(keys) :
                        ~read_from_file /\ ~keys[i].data.valid) :
        LET r == import_keys(keys, read_from_file, pub, sec, fs, rejects)
        IN  /\ pub' = r.pub
            /\ sec' = r.sec
            /\ last' = [op |-> "import_keys", keys |-> keys,
                        read_from_file |-> read_from_file, rejects |-> rejects,
                        res |-> r.res, attempted |-> r.attempted,
                        prePub |-> pub, preSec |-> sec]
            /\ rt' = IF /\ rt.stage = 2
                        /\ read_from_file
                        /\ keys = <<[path |-> rt.path, data |-> Garbage]>>
                     THEN [stage |-> 3, path |-> rt.path, pre |-> rt.pre,
                           id |-> rt.id, imported |-> r.res]
                     ELSE NoRoundTrip
            /\ UNCHANGED <<armor, engineArmor, outputFile, fs, dirs, inp, out>>

ExportKeysOf(types, patternSet) ==
    /\ last = Idle
    /\ \E key_type \in types, patterns \in patternSet :
       \E rejects \in Oracle(FilterMapOk(get_keys_iter(key_type, patterns, pub, sec)) = <<>>) :
        LET r == export_keys(key_type, patterns, outputFile, armor, engineArmor,
                             pub, sec, fs, dirs, rejects)
        IN  /\ fs' = r.fs
            /\ dirs' = r.dirs
            /\ last' = [op |-> "export_keys", key_type |-> key_type,
                        patterns |-> patterns, res |-> r.res]
            /\ rt' = IF r.res.ok /\ key_type = "Public" /\ patterns = None
                     THEN [stage |-> 1, path |-> r.res.val,
                           pre |-> get_keys("Public", None, "Minimum", pub, sec).val,
                           id |-> Broken]
                     ELSE NoRoundTrip
            /\ UNCHANGED <<armor, engineArmor, outputFile, pub, sec, inp, out>>

DeleteKey ==
    /\ last = Idle
    /\ \E key_type \in KeyTypes, key_id \in KeyIdInputs :
       \E both \in Oracle(key_type = "Secret") :
        LET r == delete_key(key_type, key_id, pub, sec, both)
        IN  /\ pub' = r.pub
            /\ sec' = r.sec
            /\ last' = [op |-> "delete_key", key_type |-> key_type,
                        key_id |-> key_id, res |-> r.res,
                        prePub |-> pub, preSec |-> sec]
            /\ rt' = IF rt.stage = 1 /\ r.res.ok /\ key_type = "Public"
                     THEN [rt EXCEPT !.stage = 2,
                                     !.id = get_key("Public", key_id, pub, sec).val]
                     ELSE NoRoundTrip
            /\ UNCHANGED <<armor, engineArmor, outputFile, fs, dirs, inp, out>>

(***************************************************************************)
(* Spec: keyring maintenance.  The public keyring is exported, keys are    *)
(* deleted, and one string at a time is imported.                          *)
(***************************************************************************)
ImportOne == ImportKeysOf(ImportLists(1))

ExportPublic == ExportKeysOf({"Public"}, {None, Some(<<NoSuchKey>>)})

Next == ImportOne \/ ExportPublic \/ DeleteKey \/ Return

Spec == Init /\ [][Next]_vars

(***************************************************************************)
(* SpecImport: batches of up to MaxBatch strings are imported, from a      *)
(* directory that may hold the file of an earlier export.                  *)
(***************************************************************************)
OutPath(key_type) ==
    get_output_file(QueryTypeExt, FALSE, <<>>, {}, key_type, <<>>).res.val

ExportedFile(S, secret) ==
    [keys |-> S, secret |-> secret, armored |-> FALSE, valid |-> TRUE]

InitImport ==
    /\ armor = FALSE
    /\ pub \in Rings
    /\ sec = <<>>
    /\ \/ fs = <<>> /\ dirs = {}
       \/ /\ fs \in {(OutPath("Public") :> ExportedFile(Keys, FALSE)),
                     (OutPath("Secret") :> ExportedFile({1}, TRUE))}
          /\ dirs = {OutputDir}
    /\ InitContext

ImportBatch == ImportKeysOf(ImportLists(MaxBatch))

NextImport == ImportBatch \/ Return

SpecImport == InitImport /\ [][NextImport]_vars

(***************************************************************************)
(* SpecList: the keyring is listed and exported to memory.                 *)
(***************************************************************************)
InitList ==
    /\ armor \in BOOLEAN
    /\ pub \in Rings
    /\ sec \in {s \in Rings : SeqToSet(s) \ {Broken} \subseteq SeqToSet(pub)}
    /\ fs = <<>>
    /\ dirs = {}
    /\ InitContext

NextList == GetKeys \/ GetExportedKeys \/ Return

SpecList == InitList /\ [][NextList]_vars

(***************************************************************************)
(* SpecArmor: the caller toggles config.armor, applies the configuration   *)
(* and exports, in any order.                                              *)
(***************************************************************************)
InitArmor ==
    /\ armor \in BOOLEAN
    /\ pub \in Rings
    /\ sec \in {<<>>, Restrict(pub, Keys)}
    /\ fs = <<>>
    /\ dirs = {}
    /\ InitContext

ExportAny == ExportKeysOf(KeyTypes, {None})

NextArmor == ToggleArmor \/ ApplyConfig \/ ExportAny \/ Return

SpecArmor == InitArmor /\ [][NextArmor]_vars

(***************************************************************************)
(* SpecPath: export paths.  The caller sets config.output_file and         *)
(* config.armor and asks for the path of an export.                        *)
(***************************************************************************)
\* "k/{query}.{ext}", a template with a subdirectory
SubdirTemplate ==
    <<"k", "/", "{", "q", "u", "e", "r", "y", "}", ".", "{", "e", "x", "t", "}">>

\* "{name}.{ext}", a template with a placeholder that is no field
UnknownField ==
    <<"{", "n", "a", "m", "e", "}", ".", "{", "e", "x", "t", "}">>

\* "{type", a placeholder left open
Unclosed == <<"{", "t", "y", "p", "e">>

Templates == {QueryTypeExt, SubdirTemplate, UnknownField, Unclosed}

\* "0x0", a key id, "<1>" (an address in the engine's exact-match form),
\* and a name
PathPatterns == {<<"0", "x", "0">>, KeyId(1), <<"<", "1", ">">>, NoSuchKey}

PatternLists == UNION {[1..n -> PathPatterns] : n \in 0..2}

InitPath ==
    /\ armor \in BOOLEAN
    /\ pub = <<>>
    /\ sec = <<>>
    /\ fs = <<>>
    /\ dirs = {}
    /\ InitContext

\* config.output_file = ..., the caller's write to the public field.
SetOutputFile ==
    /\ last = Idle
    /\ \E t \in Templates \ {outputFile} : outputFile' = t
    /\ UNCHANGED <<armor, engineArmor, pub, sec, fs, dirs, last, rt, inp, out>>

GetOutputFile ==
    /\ last = Idle
    /\ \E key_type \in KeyTypes, patterns \in PatternLists :
        LET r == get_output_file(outputFile, armor, fs, dirs, key_type, patterns)
        IN  /\ dirs' = r.dirs
            /\ last' = [op |-> "get_output_file", key_type |-> key_type,
                        patterns |-> patterns, res |-> r.res]
            /\ UNCHANGED <<armor, engineArmor, outputFile, pub, sec, fs, rt, inp, out>>

NextPath == SetOutputFile \/ ToggleArmor \/ GetOutputFile \/ Return

SpecPath == InitPath /\ [][NextPath]_vars

(***************************************************************************)
(* Mode (src/src/app/mode.rs).                                             *)
(***************************************************************************)
Modes == {"Normal", "Visual", "Copy"}

\* format!("{:?}", mode): the name of the variant.
DebugName(m) ==
    CASE m = "Normal" -> <<"N", "o", "r", "m", "a", "l">>
      [] m = "Visual" -> <<"V", "i", "s", "u", "a", "l">>
      [] OTHER -> <<"C", "o", "p", "y">>

\* char::to_lowercase.  "DOTI" is U+0130, whose lowercase is two characters,
\* i and the combining dot above ("COMBDOT").
LowerChar(c) ==
    CASE c = "N" -> <<"n">> [] c = "O" -> <<"o">> [] c = "R" -> <<"r">>
      [] c = "M" -> <<"m">> [] c = "A" -> <<"a">> [] c = "L" -> <<"l">>
      [] c = "V" -> <<"v">> [] c = "I" -> <<"i">> [] c = "S" -> <<"s">>
      [] c = "U" -> <<"u">> [] c = "C" -> <<"c">> [] c = "P" -> <<"p">>
      [] c = "Y" -> <<"y">> [] c = "X" -> <<"x">>
      [] c = "DOTI" -> <<"i", "COMBDOT">>
      [] OTHER -> <<c>>

RECURSIVE to_lowercase(_)
to_lowercase(s) ==
    IF s = <<>> THEN <<>> ELSE LowerChar(Head(s)) \o to_lowercase(Tail(s))

\* impl Display for Mode
ModeToString(m) ==
    <<"-", "-", " ">> \o to_lowercase(DebugName(m)) \o <<" ", "-", "-">>

\* A slip in the parser: the match without the lowercasing.
from_str_exact(s) ==
    CASE s = <<"n", "o", "r", "m", "a", "l">> \/ s = <<"n">> -> Ok("Normal")
      [] s = <<"v", "i", "s", "u", "a", "l">> \/ s = <<"v">> -> Ok("Visual")
      [] s = <<"c", "o", "p", "y">> \/ s = <<"c">> -> Ok("Copy")
      [] OTHER -> Err("unit")

\* impl FromStr for Mode
from_str(s) ==
    LET l == to_lowercase(s)
    IN  CASE l = <<"n", "o", "r", "m", "a", "l">> \/ l = <<"n">> -> Ok("Normal")
          [] l = <<"v", "i", "s", "u", "a", "l">> \/ l = <<"v">> -> Ok("Visual")
          [] l = <<"c", "o", "p", "y">> \/ l = <<"c">> -> Ok("Copy")
          [] OTHER -> Err("unit")

UpperChar(c) ==
    CASE c = "n" -> "N" [] c = "o" -> "O" [] c = "r" -> "R" [] c = "m" -> "M"
      [] c = "a" -> "A" [] c = "l" -> "L" [] c = "v" -> "V" [] c = "i" -> "I"
      [] c = "s" -> "S" [] c = "u" -> "U" [] c = "c" -> "C" [] c = "p" -> "P"
      [] c = "y" -> "Y" [] OTHER -> c

\* The lowercase name of a mode, and its first letter.
ModeName(m) ==
    CASE m = "Normal" -> <<"n", "o", "r", "m", "a", "l">>
      [] m = "Visual" -> <<"v", "i", "s", "u", "a", "l">>
      [] OTHER -> <<"c", "o", "p", "y">>

ModeWords == {ModeName(m) : m \in Modes} \cup {<<ModeName(m)[1]>> : m \in Modes}

\* Every way of writing a word in upper and lower case.
RECURSIVE Casings(_)
Casings(w) ==
    IF w = <<>> THEN {<<>>}
    ELSE {<<c>> \o rest : c \in {Head(w), UpperChar(Head(w))}, rest \in Casings(Tail(w))}

\* Strings that are no mode: the empty string, a prefix, a trailing blank,
\* a doubled letter, the rendered form itself, another word, a name written
\* with U+0130.
OtherWords ==
    {<<>>, <<"n", "o">>, <<"n", "o", "r", "m", "a", "l", " ">>, <<" ", "v">>,
     <<"c", "c">>, <<"c", "o", "p", "y", "y">>, <<"x">>, <<"X">>,
     <<"-", "-", " ", "c", "o", "p", "y", " ", "-", "-">>,
     <<"v", "DOTI", "s", "u", "a", "l">>, <<"i", "n", "s", "e", "r", "t">>}

ModeInputs == UNION {Casings(w) : w \in ModeWords} \cup OtherWords

\* The middle token of "-- x --".
Middle(text) == SubSeq(text, 4, Len(text) - 3)

InitPure ==
    /\ armor = FALSE
    /\ pub = <<>>
    /\ sec = <<>>
    /\ fs = <<>>
    /\ dirs = {}
    /\ engineArmor = armor
    /\ outputFile = QueryTypeExt
    /\ last = Idle
    /\ rt = NoRoundTrip

InitMode ==
    /\ InitPure
    /\ inp \in ModeInputs
    /\ out = Idle

FromStr ==
    /\ out = Idle
    /\ out' = [op |-> "from_str", res |-> from_str(inp)]
    /\ UNCHANGED <<ctxVars, inp>>

Display ==
    /\ out.op = "from_str"
    /\ out.res.ok
    /\ out' = [op |-> "to_string", mode |-> out.res.val,
               text |-> ModeToString(out.res.val)]
    /\ UNCHANGED <<ctxVars, inp>>

\* The rendered body is parsed again.
Reparse ==
    /\ out.op = "to_string"
    /\ inp' = Middle(out.text)
    /\ out' = [op |-> "from_str", res |-> from_str(Middle(out.text))]
    /\ UNCHANGED ctxVars

NextMode == FromStr \/ Display \/ Reparse

SpecMode == InitMode /\ [][NextMode]_vars

(***************************************************************************)
(* KeyDetailLevel and GpgKey (src/src/gpg/key.rs).                         *)
(***************************************************************************)
MaxUsers == 2

MaxSigs == 3

MaxIncrease == 4

\* KeyDetailLevel as i8
Discriminant(d) == CASE d = "Minimum" -> 0 [] d = "Standard" -> 1 [] OTHER -> 2

\* A slip in the successor: the match on the discriminant without the + 1.
increase_stuck(d) ==
    LET n == Discriminant(d)
    IN  CASE n = 1 -> "Standard"
          [] n = 2 -> "Full"
          [] OTHER -> "Minimum"

\* KeyDetailLevel::increase
increase(d) ==
    LET n == Discriminant(d) + 1
    IN  CASE n = 1 -> "Standard"
          [] n = 2 -> "Full"
          [] OTHER -> "Minimum"

HexDigit(n) ==
    <<"0", "1", "2", "3", "4", "5", "6", "7", "8", "9", "a", "b", "c", "d", "e", "f">>[n + 1]

\* format!("{:x}", n)
RECURSIVE Hex(_)
Hex(n) == IF n < 16 THEN <<HexDigit(n)>> ELSE Hex(n \div 16) \o <<HexDigit(n % 16)>>

Unknown == <<"[", "?", "]">>

\* Key ids are "A" and "B"; "none" is an id the engine does not report.
IdText(id) == IF id = "none" THEN Unknown ELSE <<id>>

\* handler::get_signature_time(sig, format): the date in the format asked for.
SignatureTime(truncate) == IF truncate THEN <<"%", "Y">> ELSE <<"%", "F">>

\* A slip in the column stem: the last user id tested as user_count.
get_user_signatures_stem(key, user, user_count, user_index, truncate) ==
    LET signatures == user.sigs
    IN  [i \in 1..Len(signatures) |->
            <<" ">>
            \o (IF user_count = 1 THEN <<" ">>
                ELSE IF user_index = user_count THEN <<" ", " ", " ", " ">>
                ELSE IF user_index = 0 THEN <<"VBAR">>
                ELSE <<"VBAR", " ", " ", " ">>)
            \o <<" ", " ">>
            \o (IF i - 1 = Len(signatures) - 1 THEN <<"ELL", "HBAR">>
                ELSE <<"TEE", "HBAR">>)
            \o <<"[">> \o Hex(signatures[i].class) \o <<"]", " ">>
            \o (IF signatures[i].signer = key.id
                THEN <<"s", "e", "l", "f", "s", "i", "g">>
                ELSE IF truncate THEN IdText(signatures[i].signer)
                ELSE IdText(signatures[i].signer) \o <<" ">>
                     \o (IF signatures[i].signer = "none" THEN Unknown ELSE <<"w">>))
            \o <<" ">> \o SignatureTime(truncate)]

\* GpgKey::get_user_signatures
get_user_signatures(key, user, user_count, user_index, truncate) ==
    LET signatures == user.sigs
    IN  [i \in 1..Len(signatures) |->
            <<" ">>
            \o (IF user_count = 1 THEN <<" ">>
                ELSE IF user_index = user_count - 1 THEN <<" ", " ", " ", " ">>
                ELSE IF user_index = 0 THEN <<"VBAR">>
                ELSE <<"VBAR", " ", " ", " ">>)
            \o <<" ", " ">>
            \o (IF i - 1 = Len(signatures) - 1 THEN <<"ELL", "HBAR">>
                ELSE <<"TEE", "HBAR">>)
            \o <<"[">> \o Hex(signatures[i].class) \o <<"]", " ">>
            \o (IF signatures[i].signer = key.id
                THEN <<"s", "e", "l", "f", "s", "i", "g">>
                ELSE IF truncate THEN IdText(signatures[i].signer)
                ELSE IdText(signatures[i].signer) \o <<" ">>
                     \o (IF signatures[i].signer = "none" THEN Unknown ELSE <<"w">>))
            \o <<" ">> \o SignatureTime(truncate)]

\* The lines of get_user_info from user i (0-based) on.
RECURSIVE UserInfoFrom(_, _, _, _)
UserInfoFrom(key, detail, i, truncate) ==
    LET user_ids == key.users
    IN  IF i >= Len(user_ids) THEN <<>>
        ELSE LET user == user_ids[i + 1]
                 line == (IF i = 0 THEN <<>>
                          ELSE IF i = Len(user_ids) - 1 THEN <<" ", "ELL", "HBAR">>
                          ELSE <<" ", "TEE", "HBAR">>)
                         \o <<"[">> \o <<user.validity>> \o <<"]", " ">>
                         \o (IF ~user.label THEN Unknown
                             ELSE IF truncate THEN <<"e">> ELSE <<"i">>)
             IN  IF detail = "Minimum" THEN <<line>>
                 ELSE <<line>>
                      \o (IF detail = "Full"
                          THEN get_user_signatures(key, user, Len(user_ids), i, truncate)
                          ELSE <<>>)
                      \o UserInfoFrom(key, detail, i + 1, truncate)

\* GpgKey::get_user_info
get_user_info(key, detail, truncate) == UserInfoFrom(key, detail, 0, truncate)

(***************************************************************************)
(* SpecKey: a key is shown; the viewer cycles the level of detail and      *)
(* renders the user ids.                                                   *)
(***************************************************************************)
SigSet == {[signer |-> s, class |-> IF s = "B" THEN 19 ELSE 16] : s \in {"A", "B", "none"}}

SigLists == UNION {[1..n -> SigSet] : n \in 0..MaxSigs}

\* The keys shown: the last user id bears any signatures, the ones before
\* it bear none or one.
KeySet ==
    {[id |-> kid,
      users |-> [i \in 1..n |-> [validity |-> "u", label |-> lab,
                                 sigs |-> IF i < n THEN first ELSE lastSigs]]] :
        kid \in {"A", "none"}, n \in 1..MaxUsers, lab \in BOOLEAN,
        first \in {<<>>, <<[signer |-> "A", class |-> 16]>>}, lastSigs \in SigLists}

InitKey ==
    /\ InitPure
    /\ \E key \in KeySet, d \in KeyDetail :
          inp = [key |-> key, start |-> d, detail |-> d, n |-> 0]
    /\ out = Idle

\* key.detail.increase()
Increase ==
    /\ inp.n < MaxIncrease
    /\ inp' = [inp EXCEPT !.detail = increase(inp.detail), !.n = inp.n + 1]
    /\ out' = Idle
    /\ UNCHANGED ctxVars

GetUserInfo ==
    /\ out = Idle
    /\ \E truncate \in BOOLEAN :
          out' = [op |-> "get_user_info", truncate |-> truncate,
                  lines |-> get_user_info(inp.key, inp.detail, truncate)]
    /\ UNCHANGED <<ctxVars, inp>>

NextKey == Increase \/ GetUserInfo

SpecKey == InitKey /\ [][NextKey]_vars

(***************************************************************************)
(* What the claims speak of, stated apart from the operations.             *)
(***************************************************************************)
\* The key with this 0x-prefixed id.
KeyOfId(key_id) == CHOOSE k \in Keys : key_id = <<"0", "x">> \o KeyId(k)

\* The keys of a keyring that the patterns select, in engine order.
Selected(ring, patterns) ==
    Restrict(ring, {k \in Keys : \/ ~patterns.some
                                 \/ patterns.val = <<>>
                                 \/ \E i \in 1..Len(patterns.val) :
                                        EngineMatches(patterns.val[i], k)})

\* The ids a listing shows.
Listed(res) == [i \in 1..Len(res.val) |-> res.val[i].inner]

\* The last three characters of a path.
Ext(path) == SubSeq(path, Len(path) - 2, Len(path))

\* Element e of an import fails: the file cannot be opened, or the engine
\* rejects the input.
ElemFails(e, read_from_file, rejects) ==
    IF read_from_file THEN e.path \notin DOMAIN fs
    ELSE ~e.data.valid /\ rejects

ElemData(e, read_from_file) == IF read_from_file THEN fs[e.path] ELSE e.data

FirstFailing(keys, read_from_file, rejects) ==
    IF \E i \in 1..Len(keys) : ElemFails(keys[i], read_from_file, rejects)
    THEN CHOOSE i \in 1..Len(keys) :
            /\ ElemFails(keys[i], read_from_file, rejects)
            /\ \A j \in 1..(i - 1) : ~ElemFails(keys[j], read_from_file, rejects)
    ELSE 0

\* The keys (secret keys, with secret) in the first n elements of an import.
KeysUpTo(keys, n, read_from_file, secret) ==
    UNION {LET d == ElemData(keys[j], read_from_file)
           IN  IF secret /\ ~d.secret THEN {} ELSE d.keys : j \in 1..n}

(***************************************************************************)
(* C1.  Export/import round trip: after export_keys(Public, None), a       *)
(* successful delete_key(Public, id) of a key that was in the keyring and  *)
(* import_keys([exported path], true), the import reports 1 imported key,  *)
(* the public listing has as many keys as before the delete, and the       *)
(* deleted key is listed again.                                            *)
(***************************************************************************)
C1_RoundTrip ==
    rt.stage = 3 =>
        LET now == get_keys("Public", None, "Minimum", pub, sec)
        IN  /\ rt.imported = Ok(1)
            /\ now.ok
            /\ Len(now.val) = Len(rt.pre)
            /\ \E i \in 1..Len(now.val) : now.val[i].inner = rt.id

C1_Witness ==
    /\ rt.stage = 3
    /\ last.op = "import_keys"
    /\ last.res.ok
    /\ Len(rt.pre) >= 2
    /\ Broken \in SeqToSet(pub)

(***************************************************************************)
(* C2.  Import batch abort without rollback: when element i of an import   *)
(* is the first to fail, the call returns an error that carries no count,  *)
(* the loop reached exactly i elements, and the keyrings hold what they    *)
(* held before plus the keys of elements 1..i-1, and nothing of the        *)
(* elements after i.                                                       *)
(***************************************************************************)
C2_BatchAbort ==
    last.op = "import_keys" =>
        LET i == FirstFailing(last.keys, last.read_from_file, last.rejects)
        IN  i > 0 =>
              /\ ~last.res.ok
              /\ DOMAIN last.res = {"ok", "err"}
              /\ last.attempted = i
              /\ SeqToSet(pub) = SeqToSet(last.prePub)
                    \cup KeysUpTo(last.keys, i - 1, last.read_from_file, FALSE)
              /\ SeqToSet(sec) = SeqToSet(last.preSec)
                    \cup KeysUpTo(last.keys, i - 1, last.read_from_file, TRUE)

C2_Witness ==
    /\ last.op = "import_keys"
    /\ FirstFailing(last.keys, last.read_from_file, last.rejects) = 2
    /\ Len(last.keys) = 3
    /\ pub # last.prePub
    /\ ~ElemFails(last.keys[3], last.read_from_file, last.rejects)
    /\ ~(ElemData(last.keys[3], last.read_from_file).keys \subseteq SeqToSet(pub))

(***************************************************************************)
(* C3.  Post-mutation visibility: right after a successful                 *)
(* delete_key(t, id), get_keys(t, None, d) lists the keys it listed before *)
(* the delete without the deleted key, one fewer and in the same order;    *)
(* right after a successful import_keys, get_keys(Public, None, d) lists   *)
(* every key of the imported data.                                         *)
(***************************************************************************)
C3_PostMutation ==
    \A d \in KeyDetail :
        /\ (last.op = "delete_key" /\ last.res.ok) =>
              LET before == get_keys(last.key_type, None, d, last.prePub, last.preSec)
                  after == get_keys(last.key_type, None, d, pub, sec)
              IN  /\ after.ok
                  /\ Listed(after) = Without(Listed(before), KeyOfId(last.key_id))
                  /\ Len(after.val) = Len(before.val) - 1
        /\ (last.op = "import_keys" /\ last.res.ok) =>
              LET after == get_keys("Public", None, d, pub, sec)
              IN  /\ after.ok
                  /\ KeysUpTo(last.keys, Len(last.keys), last.read_from_file, FALSE)
                        \subseteq SeqToSet(Listed(after))

C3_Witness ==
    /\ last.op = "delete_key"
    /\ last.res.ok
    /\ Len(get_keys(last.key_type, None, "Full", pub, sec).val) >= 1
    /\ Broken \in SeqToSet(Ring(last.key_type, pub, sec))

(***************************************************************************)
(* C7.  Empty export.  As claimed: get_exported_keys never succeeds with   *)
(* an empty buffer, and a selection that matches no key fails with         *)
(* "nothing exported".                                                     *)
(***************************************************************************)
C7_Original ==
    last.op = "get_exported_keys" =>
        /\ last.res.ok => ~IsEmpty(last.res.val)
        /\ Selected(Ring(last.key_type, pub, sec), last.patterns) = <<>>
              => last.res = Err("nothing exported")

(***************************************************************************)
(* C7, amended: get_exported_keys never succeeds with an empty buffer; a   *)
(* selection that matches no key always fails, with "nothing exported"     *)
(* when the engine wrote no bytes and with the engine's own error when the *)
(* engine refused the export.                                              *)
(***************************************************************************)
C7_EmptyExport ==
    last.op = "get_exported_keys" =>
        /\ last.res.ok => ~IsEmpty(last.res.val)
        /\ Selected(Ring(last.key_type, pub, sec), last.patterns) = <<>>
              => last.res = IF last.rejects THEN Err("engine")
                             ELSE Err("nothing exported")

C7_Witness ==
    /\ last.op = "get_exported_keys"
    /\ last.patterns = Some(<<NoSuchKey>>)
    /\ Len(Ring(last.key_type, pub, sec)) >= 2
    /\ last.res = Err("nothing exported")

(***************************************************************************)
(* C9.  Lenient listing: get_keys returns Ok with exactly the good records *)
(* the patterns select, in engine order, each at the requested detail      *)
(* level, whether or not the enumeration yields a broken record.           *)
(***************************************************************************)
C9_LenientListing ==
    last.op = "get_keys" =>
        LET good == Selected(Ring(last.key_type, pub, sec), last.patterns)
        IN  /\ last.res.ok
            /\ Len(last.res.val) = Len(good)
            /\ \A i \in 1..Len(good) :
                  last.res.val[i] = [inner |-> good[i], detail |-> last.detail_level]

C9_Witness ==
    /\ last.op = "get_keys"
    /\ last.patterns = None
    /\ Len(Ring(last.key_type, pub, sec)) = 3
    /\ Ring(last.key_type, pub, sec)[2] = Broken
    /\ Len(last.res.val) = 2

(***************************************************************************)
(* C10.  Armor/extension consistency.  As claimed: every successful        *)
(* export_keys writes a file whose extension is "asc" exactly when its     *)
(* bytes are ASCII-armored.                                                *)
(***************************************************************************)
C10_Original ==
    (last.op = "export_keys" /\ last.res.ok) =>
        (Ext(last.res.val) = <<"a", "s", "c">>) = fs[last.res.val].armored

(***************************************************************************)
(* C10, amended: a successful export_keys names the file by config.armor   *)
(* ("asc" when set, "pgp" otherwise) and encodes it by the engine's armor  *)
(* flag; apply_config makes the two flags equal, and an export issued      *)
(* while they are equal writes "asc" exactly when the bytes are armored.   *)
(***************************************************************************)
C10_ArmorExtension ==
    /\ (last.op = "export_keys" /\ last.res.ok) =>
          /\ Ext(last.res.val) = (IF armor THEN <<"a", "s", "c">> ELSE <<"p", "g", "p">>)
          /\ fs[last.res.val].armored = engineArmor
          /\ (armor = engineArmor) =>
                ((Ext(last.res.val) = <<"a", "s", "c">>) = fs[last.res.val].armored)
    /\ last.op = "apply_config" => engineArmor = armor

C10_Witness ==
    /\ last.op = "export_keys"
    /\ last.res.ok
    /\ armor
    /\ engineArmor
    /\ \E p \in DOMAIN fs : ~fs[p].armored

(***************************************************************************)
(* C8.  Mode parse/display round trip: a mode is displayed as              *)
(* "-- <lowercase name> --"; the lowercase name, its first letter, and any *)
(* upper/lower casing of either parse to the mode; any other string fails  *)
(* to parse.                                                               *)
(***************************************************************************)
C8_ModeRoundTrip ==
    /\ out.op = "from_str" =>
          /\ \A m \in Modes :
                inp \in Casings(ModeName(m)) \cup Casings(<<ModeName(m)[1]>>)
                   => out.res = Ok(m)
          /\ (\A m \in Modes :
                inp \notin Casings(ModeName(m)) \cup Casings(<<ModeName(m)[1]>>))
                   => ~out.res.ok
    /\ out.op = "to_string" =>
          /\ out.text = <<"-", "-", " ">> \o ModeName(out.mode) \o <<" ", "-", "-">>
          /\ from_str(Middle(out.text)) = Ok(out.mode)
          /\ from_str(<<ModeName(out.mode)[1]>>) = Ok(out.mode)

C8_Witness ==
    /\ out.op = "from_str"
    /\ inp = <<"v", "I", "s", "U", "a", "L">>
    /\ out.res = Ok("Visual")

(***************************************************************************)
(* C5.  Export path template context.  As claimed: {type} renders as pub   *)
(* or sec, {ext} as asc or pgp by config.armor, {query} as the pattern     *)
(* when exactly one was given and as "out" otherwise, and the result is    *)
(* output_dir joined with the rendered template.                           *)
(***************************************************************************)
ClaimedQuery(patterns) == IF Len(patterns) = 1 THEN patterns[1] ELSE <<"o", "u", "t">>

ClaimedType(key_type) == IF key_type = "Public" THEN <<"p", "u", "b">> ELSE <<"s", "e", "c">>

ClaimedExt == IF armor THEN <<"a", "s", "c">> ELSE <<"p", "g", "p">>

ClaimedPath(query, key_type) ==
    OutputDir \o <<"/">>
    \o (IF outputFile = QueryTypeExt
        THEN query \o <<"-">> \o ClaimedType(key_type) \o <<".">> \o ClaimedExt
        ELSE <<"k", "/">> \o query \o <<".">> \o ClaimedExt)

C5_Original ==
    (last.op = "get_output_file" /\ outputFile \in {QueryTypeExt, SubdirTemplate}) =>
        last.res = Ok(ClaimedPath(ClaimedQuery(last.patterns), last.key_type))

(***************************************************************************)
(* C4.  Detail cycle.  As claimed: four successive increase() calls return *)
(* to the starting value.                                                  *)
(***************************************************************************)
C4_Original == inp.n = 4 => inp.detail = inp.start

(***************************************************************************)
(* C4, amended: three successive increase() calls return to the starting   *)
(* value, and one or two do not; the detail level is the starting one      *)
(* exactly after a multiple of three calls.                                *)
(***************************************************************************)
C4_DetailCycle ==
    /\ inp.n = 3 => inp.detail = inp.start
    /\ (inp.detail = inp.start) = (inp.n % 3 = 0)

C4_Witness ==
    /\ inp.n = 3
    /\ inp.start = "Standard"
    /\ inp.detail = "Standard"

(***************************************************************************)
(* C6.  Signature-subtree glyphs.  As claimed: for a key with 2 user ids   *)
(* and 3 signatures on the second, get_user_info(true) at Full detail      *)
(* gives three signature lines for the second user id that start with four *)
(* spaces and then TEE HBAR, TEE HBAR and ELL HBAR; a self-signature has   *)
(* the signer body "selfsig".                                              *)
(***************************************************************************)
StartsWith(line, prefix) ==
    Len(line) >= Len(prefix) /\ SubSeq(line, 1, Len(prefix)) = prefix

Spaces(n) == [i \in 1..n |-> " "]

\* Two user ids, three signatures on the second, rendered truncated at Full.
GlyphCase ==
    /\ out.op = "get_user_info"
    /\ out.truncate
    /\ inp.detail = "Full"
    /\ Len(inp.key.users) = 2
    /\ Len(inp.key.users[2].sigs) = 3

\* Line j of the second user id's signature subtree (the last three lines).
SubtreeLine(j) == out.lines[Len(out.lines) - 3 + j]

Branch(j) == IF j = 3 THEN <<"ELL", "HBAR">> ELSE <<"TEE", "HBAR">>

SelfSigned(j) == inp.key.users[2].sigs[j].signer = inp.key.id

SelfSigBody(indent, j) ==
    Spaces(indent) \o Branch(j) \o <<"[">> \o Hex(inp.key.users[2].sigs[j].class)
    \o <<"]", " ", "s", "e", "l", "f", "s", "i", "g", " ", "%", "Y">>

C6_Original ==
    GlyphCase =>
        \A j \in 1..3 :
            /\ StartsWith(SubtreeLine(j), Spaces(4) \o Branch(j))
            /\ SelfSigned(j) => SubtreeLine(j) = SelfSigBody(4, j)

(***************************************************************************)
(* C6, amended: the three lines start with seven spaces (one, the          *)
(* four-space column stem, two) and then TEE HBAR, TEE HBAR and ELL HBAR;  *)
(* a self-signature has the signer body "selfsig".                         *)
(***************************************************************************)
C6_Glyphs ==
    GlyphCase =>
        /\ Len(out.lines) = 2 + Len(inp.key.users[1].sigs) + 3
        /\ \A j \in 1..3 :
            /\ StartsWith(SubtreeLine(j), Spaces(7) \o Branch(j))
            /\ SelfSigned(j) => SubtreeLine(j) = SelfSigBody(7, j)

C6_Witness ==
    /\ GlyphCase
    /\ inp.key.id = "A"
    /\ SelfSigned(1)
    /\ ~SelfSigned(2)
    /\ SelfSigned(3)

====
